---- MODULE Spec2Model ----
(***************************************************************************)
(* Model of tasks.py (ousttrue/luada): the toolchain locator get_cmake,    *)
(* the command-line composer commandline and the invoke task build.        *)
(*                                                                         *)
(* Text is a sequence of one-character strings, so that split, join,       *)
(* quoting and re-parsing are computed character by character.             *)
(* os.environ is a function whose DOMAIN is the set of variables that are  *)
(* set; looking up a name outside the DOMAIN is Python's KeyError.         *)
(***************************************************************************)
EXTENDS Integers, Sequences, FiniteSets, TLC

VARIABLES
    system,         \* platform.system()
    environ,        \* os.environ
    exists,         \* the paths for which pathlib.Path.exists() is true
    checked,        \* the paths passed to Path.exists() so far, in order
    envReads,       \* the names looked up in os.environ so far, in order
    gpc,            \* get_cmake: position in the function
    entries,        \* get_cmake: os.environ['PATH'].split(';')
    idx,            \* get_cmake: index of the for loop in entries
    gresult,        \* get_cmake: the value returned or the exception raised
    exe,            \* commandline: str(exe)
    args,           \* commandline: *args
    cpc,            \* commandline: position
    cmd,            \* commandline: the string returned
    pc,             \* build: position in the task
    command_cwds,   \* invoke Context: the stack c.cd() pushes onto
    cwdBefore,      \* command_cwds when the current run of build started
    runArgs,        \* build: the evaluated arguments of c.run()
    spawned,        \* the subprocesses c.run() started in the current run
    raised,         \* build: the exception propagating out of the with block
    outcome,        \* build: how the current run ended
    runs            \* number of runs of build started in this process

envVars == <<system, environ, exists>>
traceVars == <<checked, envReads>>
cmakeVars == <<gpc, entries, idx, gresult>>
cmdVars == <<exe, args, cpc, cmd>>
buildVars == <<pc, command_cwds, cwdBefore, runArgs, spawned, raised, outcome, runs>>
vars == <<envVars, traceVars, cmakeVars, cmdVars, buildVars>>

(***************************************************************************)
(* Bounds of the model.                                                    *)
(***************************************************************************)
MaxPathLen == 4     \* characters in the PATH value
MaxExeLen == 2      \* characters in str(exe)
MaxArgs == 2        \* number of *args
MaxArgLen == 1      \* characters in one argument
MaxCwdDepth == 2    \* c.cd() blocks already open around build
MaxRuns == 2        \* runs of build in one process

(***************************************************************************)
(* Text helpers.                                                           *)
(***************************************************************************)
Range(s) == {s[k] : k \in 1..Len(s)}

Strs(alphabet, n) == UNION {[1..k -> alphabet] : k \in 0..n}

SeqsUpTo(S, n) == UNION {[1..k -> S] : k \in 0..n}

NoValue == "<none>"

\* What a function produced: kind is "none", "return" or "raise".
NoResult == [kind |-> "none", val |-> <<>>]

Return(v) == [kind |-> "return", val |-> v]

Raise(e) == [kind |-> "raise", val |-> e]

(***************************************************************************)
(* Module-level constants of tasks.py.  A path is a sequence of strings.   *)
(***************************************************************************)
LUAJIT_DIR == <<"HERE", "/", "LuaJIT/src">>

VCVARS_BAT == <<"C:\\Program Files (x86)\\Microsoft Visual Studio\\2019\\BuildTools\\VC\\Auxiliary\\Build\\vcvars64.bat">>

FALLBACK_CMAKE == <<"C:/Program Files/CMake/bin/cmake.exe">>

CMD_EXE == <<"C:\\Windows\\system32\\cmd.exe">>

(***************************************************************************)
(* build (tasks.py 43-54), one action per step of the task.                *)
(***************************************************************************)
OuterDirs == {<<"/work">>, LUAJIT_DIR}

ExitCodes == {0, 1, 2}

NoArgs == [command |-> <<>>, in_stream |-> <<>>]

\* The directory in which invoke runs a command: the innermost c.cd().
Cwd(stack) == IF stack = <<>> THEN <<>> ELSE stack[Len(stack)]

\* Entering the block of `with c.cd(path)`.
CdEnter(stack, path) == Append(stack, path)

CdExitLeak(stack) == stack

\* Leaving the block of `with c.cd(path)`, normally or by an exception.
CdExit(stack) == SubSeq(stack, 1, Len(stack) - 1)

VcvarsPresentAlways == TRUE

\* VCVARS_BAT.exists()
VcvarsPresent == VCVARS_BAT \in exists

\* f'{os.environ["COMSPEC"]} /K "{VCVARS_BAT}"'
Command(comspec) == comspec \o <<" ", "/K", " ", "\"">> \o VCVARS_BAT \o <<"\"">>

\* io.StringIO("msvcbuild.bat\r\nexit\r\n')")
InStream == <<"msvcbuild.bat", "\r\n", "exit", "\r\n", "')">>

RunNeverRaises(status) == FALSE

\* c.run() raises UnexpectedExit when the subprocess exits with a non-zero status.
RunRaises(status) == status # 0

\* The task runner calls build.
BuildInvoke ==
    /\ pc = "idle"
    /\ runs < MaxRuns
    /\ runs' = runs + 1
    /\ pc' = "check"
    /\ cwdBefore' = command_cwds
    /\ checked' = <<>>
    /\ envReads' = <<>>
    /\ spawned' = <<>>
    /\ runArgs' = NoArgs
    /\ raised' = NoValue
    /\ outcome' = NoValue
    /\ UNCHANGED <<command_cwds, envVars, cmakeVars, cmdVars>>

BuildCheckSkipped ==
    /\ pc = "check"
    /\ pc' = "cd"
    /\ UNCHANGED <<checked, outcome>>
    /\ UNCHANGED <<command_cwds, cwdBefore, runArgs, spawned, raised, runs>>
    /\ UNCHANGED <<envReads, envVars, cmakeVars, cmdVars>>

\* if not VCVARS_BAT.exists(): raise Exception('no vcvars64.bat')
BuildCheckVcvars ==
    /\ pc = "check"
    /\ checked' = Append(checked, VCVARS_BAT)
    /\ IF VcvarsPresent
          THEN /\ pc' = "cd"
               /\ UNCHANGED outcome
          ELSE /\ pc' = "idle"
               /\ outcome' = "Exception: no vcvars64.bat"
    /\ UNCHANGED <<command_cwds, cwdBefore, runArgs, spawned, raised, runs>>
    /\ UNCHANGED <<envReads, envVars, cmakeVars, cmdVars>>

\* with c.cd(LUAJIT_DIR):
BuildCdEnter ==
    /\ pc = "cd"
    /\ command_cwds' = CdEnter(command_cwds, LUAJIT_DIR)
    /\ pc' = "args"
    /\ UNCHANGED <<cwdBefore, runArgs, spawned, raised, outcome, runs>>
    /\ UNCHANGED <<traceVars, envVars, cmakeVars, cmdVars>>

\* The arguments of c.run() are evaluated before the call: the f-string
\* looks up COMSPEC (KeyError when it is not set), then the StringIO is built.
BuildEvalArgs ==
    /\ pc = "args"
    /\ envReads' = Append(envReads, "COMSPEC")
    /\ IF "COMSPEC" \in DOMAIN environ
          THEN /\ runArgs' = [command |-> Command(environ["COMSPEC"]),
                              in_stream |-> InStream]
               /\ pc' = "run"
               /\ UNCHANGED raised
          ELSE /\ raised' = "KeyError"
               /\ pc' = "cd_exit"
               /\ UNCHANGED runArgs
    /\ UNCHANGED <<command_cwds, cwdBefore, spawned, outcome, runs>>
    /\ UNCHANGED <<checked, envVars, cmakeVars, cmdVars>>

\* c.run(command, in_stream=...): the subprocess is started in the
\* directory the Context is in.
BuildRun ==
    /\ pc = "run"
    /\ spawned' = Append(spawned, [command |-> runArgs.command,
                                   in_stream |-> runArgs.in_stream,
                                   cwd |-> Cwd(command_cwds),
                                   status |-> -1])
    /\ pc' = "wait"
    /\ UNCHANGED <<command_cwds, cwdBefore, runArgs, raised, outcome, runs>>
    /\ UNCHANGED <<traceVars, envVars, cmakeVars, cmdVars>>

\* c.run() blocks until the subprocess terminates, with any exit status.
BuildWait ==
    /\ pc = "wait"
    /\ \E status \in ExitCodes :
          /\ spawned' = [spawned EXCEPT ![Len(spawned)].status = status]
          /\ raised' = IF RunRaises(status) THEN "UnexpectedExit" ELSE NoValue
    /\ pc' = "cd_exit"
    /\ UNCHANGED <<command_cwds, cwdBefore, runArgs, outcome, runs>>
    /\ UNCHANGED <<traceVars, envVars, cmakeVars, cmdVars>>

\* The with block is left; an exception raised inside it propagates.
BuildCdExit ==
    /\ pc = "cd_exit"
    /\ command_cwds' = CdExit(command_cwds)
    /\ outcome' = IF raised = NoValue THEN "success" ELSE raised
    /\ pc' = "idle"
    /\ UNCHANGED <<cwdBefore, runArgs, spawned, raised, runs>>
    /\ UNCHANGED <<traceVars, envVars, cmakeVars, cmdVars>>

(***************************************************************************)
(* get_cmake (tasks.py 16-33), one action per step of the function.        *)
(***************************************************************************)
PathChars == {"a", "b", ";"}

\* The directories that may exist on the modelled filesystem.
Dirs == {<<"a">>, <<"b">>}

\* p / 'cmake.exe'
CmakeIn(p) == p \o <<"\\", "cmake.exe">>

RECURSIVE Split(_)
\* s.split(';'): the pieces between the separators, empty pieces included.
Split(s) ==
    IF \A k \in 1..Len(s) : s[k] # ";"
       THEN <<s>>
       ELSE LET k == CHOOSE j \in 1..Len(s) :
                        /\ s[j] = ";"
                        /\ \A m \in 1..(j - 1) : s[m] # ";"
            IN <<SubSeq(s, 1, k - 1)>> \o Split(SubSeq(s, k + 1, Len(s)))

PlatformAny(sys) == TRUE

\* platform.system() == "Windows"
PlatformSupported(sys) == sys = "Windows"

ScanHitAnyDir(p) == p # <<>> /\ p \in exists

\* if p: ... if p.exists(): ... if cmake.exists(): return cmake
ScanHit(p) == p # <<>> /\ p \in exists /\ CmakeIn(p) \in exists

\* The existence checks one iteration of the loop performs, in order.
ScanChecks(p) ==
    IF p = <<>> THEN <<>>
    ELSE IF p \in exists THEN <<p, CmakeIn(p)>>
    ELSE <<p>>

FallbackNeverFound == FALSE

\* cmake = pathlib.Path("C:/Program Files/CMake/bin/cmake.exe"); cmake.exists()
FallbackFound == FALLBACK_CMAKE \in exists

GetCmakeCall ==
    /\ gpc = "idle"
    /\ gpc' = "platform"
    /\ UNCHANGED <<entries, idx, gresult>>
    /\ UNCHANGED <<traceVars, envVars, cmdVars, buildVars>>

\* if platform.system() == "Windows": ... else: raise NotImplementedError()
GetCmakePlatform ==
    /\ gpc = "platform"
    /\ IF PlatformSupported(system)
          THEN /\ gpc' = "environ"
               /\ UNCHANGED gresult
          ELSE /\ gpc' = "done"
               /\ gresult' = Raise(<<"NotImplementedError">>)
    /\ UNCHANGED <<entries, idx>>
    /\ UNCHANGED <<traceVars, envVars, cmdVars, buildVars>>

\* os.environ['PATH'].split(';')
GetCmakeSplit ==
    /\ gpc = "environ"
    /\ envReads' = Append(envReads, "PATH")
    /\ IF "PATH" \in DOMAIN environ
          THEN /\ entries' = Split(environ["PATH"])
               /\ idx' = 1
               /\ gpc' = "loop"
               /\ UNCHANGED gresult
          ELSE /\ gpc' = "done"
               /\ gresult' = Raise(<<"KeyError", "PATH">>)
               /\ UNCHANGED <<entries, idx>>
    /\ UNCHANGED <<checked, envVars, cmdVars, buildVars>>

\* One iteration of `for p in ...`.
GetCmakeLoop ==
    /\ gpc = "loop"
    /\ idx <= Len(entries)
    /\ LET p == entries[idx] IN
          /\ checked' = checked \o ScanChecks(p)
          /\ IF ScanHit(p)
                THEN /\ gresult' = Return(CmakeIn(p))
                     /\ gpc' = "done"
                     /\ UNCHANGED idx
                ELSE /\ idx' = idx + 1
                     /\ UNCHANGED <<gpc, gresult>>
    /\ UNCHANGED <<entries, envReads, envVars, cmdVars, buildVars>>

\* After the loop: the fallback path, or FileNotFoundError('cmake.exe').
GetCmakeFallback ==
    /\ gpc = "loop"
    /\ idx > Len(entries)
    /\ checked' = Append(checked, FALLBACK_CMAKE)
    /\ gresult' = IF FallbackFound
                     THEN Return(FALLBACK_CMAKE)
                     ELSE Raise(<<"FileNotFoundError", "cmake.exe">>)
    /\ gpc' = "done"
    /\ UNCHANGED <<entries, idx, envReads, envVars, cmdVars, buildVars>>

(***************************************************************************)
(* commandline (tasks.py 36-40).                                           *)
(***************************************************************************)
ExeChars == {"a", " ", "\t", "\""}

ArgChars == {"a", " ", "\""}

RECURSIVE Join(_, _)
\* sep.join(a)
Join(sep, a) ==
    IF a = <<>> THEN <<>>
    ELSE IF Len(a) = 1 THEN a[1]
    ELSE a[1] \o sep \o Join(sep, Tail(a))

commandlineAlwaysQuoted(e, a) == <<"\"">> \o e \o <<"\"">> \o <<" ">> \o Join(<<" ">>, a)

commandlineNoSeparator(e, a) ==
    (IF " " \in Range(e) THEN <<"\"">> \o e \o <<"\"">> ELSE e) \o Join(<<" ">>, a)

\* cmd = str(exe); if ' ' in cmd: cmd = f'"{cmd}"'; return f'{cmd} {" ".join(args)}'
commandline(e, a) ==
    LET quoted == IF " " \in Range(e) THEN <<"\"">> \o e \o <<"\"">> ELSE e
    IN quoted \o <<" ">> \o Join(<<" ">>, a)

Compose ==
    /\ cpc = "idle"
    /\ cmd' = commandline(exe, args)
    /\ cpc' = "done"
    /\ UNCHANGED <<exe, args>>
    /\ UNCHANGED <<traceVars, envVars, cmakeVars, buildVars>>

InitIdleCmake ==
    /\ gpc = "idle"
    /\ entries = <<>>
    /\ idx = 0
    /\ gresult = NoResult

InitIdleCmd ==
    /\ exe = <<>>
    /\ args = <<>>
    /\ cpc = "idle"
    /\ cmd = <<>>

InitIdleBuild ==
    /\ pc = "idle"
    /\ command_cwds = <<>>
    /\ cwdBefore = <<>>
    /\ runArgs = NoArgs
    /\ spawned = <<>>
    /\ raised = NoValue
    /\ outcome = NoValue
    /\ runs = 0

InitBuild ==
    /\ system \in {"Windows", "Linux"}
    /\ environ \in {[n \in {} |-> <<>>], [n \in {"COMSPEC"} |-> CMD_EXE]}
    /\ exists \in SUBSET {VCVARS_BAT}
    /\ checked = <<>>
    /\ envReads = <<>>
    /\ InitIdleCmake
    /\ InitIdleCmd
    /\ pc = "idle"
    /\ command_cwds \in SeqsUpTo(OuterDirs, MaxCwdDepth)
    /\ cwdBefore = command_cwds
    /\ runArgs = NoArgs
    /\ spawned = <<>>
    /\ raised = NoValue
    /\ outcome = NoValue
    /\ runs = 0

NextBuild ==
    \/ BuildInvoke
    \/ BuildCheckVcvars
    \/ BuildCdEnter
    \/ BuildEvalArgs
    \/ BuildRun
    \/ BuildWait
    \/ BuildCdExit

Spec == InitBuild /\ [][NextBuild]_vars

\* The filesystem snapshots of the locator: a cmake.exe lies in a directory
\* that exists.
Filesystems ==
    {fs \in SUBSET (Dirs \cup {CmakeIn(d) : d \in Dirs} \cup {FALLBACK_CMAKE}) :
        \A d \in Dirs : CmakeIn(d) \in fs => d \in fs}

InitGetCmake ==
    /\ system \in {"Windows", "Linux"}
    /\ environ \in {[n \in {} |-> <<>>]}
                   \cup {[n \in {"PATH"} |-> v] : v \in Strs(PathChars, MaxPathLen)}
    /\ exists \in Filesystems
    /\ checked = <<>>
    /\ envReads = <<>>
    /\ InitIdleCmake
    /\ InitIdleCmd
    /\ InitIdleBuild

NextGetCmake ==
    \/ GetCmakeCall
    \/ GetCmakePlatform
    \/ GetCmakeSplit
    \/ GetCmakeLoop
    \/ GetCmakeFallback

SpecGetCmake == InitGetCmake /\ [][NextGetCmake]_vars

InitCommandline ==
    /\ system = "Windows"
    /\ environ = [n \in {} |-> <<>>]
    /\ exists = {}
    /\ checked = <<>>
    /\ envReads = <<>>
    /\ InitIdleCmake
    /\ exe \in Strs(ExeChars, MaxExeLen) \ {<<>>}
    /\ args \in SeqsUpTo(Strs(ArgChars, MaxArgLen), MaxArgs)
    /\ cpc = "idle"
    /\ cmd = <<>>
    /\ InitIdleBuild

NextCommandline == Compose

SpecCommandline == InitCommandline /\ [][NextCommandline]_vars

(***************************************************************************)
(* Properties of build, checked under Spec.                                *)
(***************************************************************************)
\* A run of build has ended.
BuildDone == pc = "idle" /\ runs > 0

\* The with block of build is open.
InsideCd == pc \in {"args", "run", "wait", "cd_exit"}

FirstSpawnFailed == spawned # <<>> /\ spawned[1].status # 0

\* C1 as stated: when VCVARS_BAT exists, every run of build spawns exactly
\* one subprocess, in LUAJIT_DIR, and ends with the working directory that
\* was in effect before it started.
C1_EveryRunSpawnsOnceAndRestores ==
    (BuildDone /\ VCVARS_BAT \in exists) =>
        /\ Len(spawned) = 1
        /\ spawned[1].cwd = LUAJIT_DIR
        /\ command_cwds = cwdBefore

\* C1 amended: when VCVARS_BAT exists, the working directory is LUAJIT_DIR
\* throughout the with block and is the one before the run on every way out
\* of it; exactly one subprocess is spawned, in LUAJIT_DIR, when COMSPEC is
\* set, and none when COMSPEC is not set (KeyError).
C1_RestoresAndSpawnsOnceIfComspec ==
    /\ InsideCd => /\ command_cwds = Append(cwdBefore, LUAJIT_DIR)
                   /\ Cwd(command_cwds) = LUAJIT_DIR
    /\ \A k \in 1..Len(spawned) : spawned[k].cwd = LUAJIT_DIR
    /\ Len(spawned) <= 1
    /\ (BuildDone /\ VCVARS_BAT \in exists) =>
          /\ command_cwds = cwdBefore
          /\ Len(spawned) = (IF "COMSPEC" \in DOMAIN environ THEN 1 ELSE 0)

C1_Witness ==
    /\ BuildDone
    /\ VCVARS_BAT \in exists
    /\ cwdBefore # <<>>
    /\ command_cwds = cwdBefore
    /\ Len(spawned) = 1
    /\ spawned[1].status = 2
    /\ runs = 2

\* C2: when VCVARS_BAT does not exist, build raises 'no vcvars64.bat', no
\* subprocess is ever started and the working directory is never changed.
C2_MissingVcvarsFailsBeforeSpawn ==
    (VCVARS_BAT \notin exists /\ runs > 0) =>
        /\ spawned = <<>>
        /\ command_cwds = cwdBefore
        /\ pc \in {"idle", "check"}
        /\ BuildDone => outcome = "Exception: no vcvars64.bat"

C2_Witness ==
    /\ BuildDone
    /\ VCVARS_BAT \notin exists
    /\ "COMSPEC" \in DOMAIN environ
    /\ outcome = "Exception: no vcvars64.bat"
    /\ checked = <<VCVARS_BAT>>

\* C3 as stated: build fails if VCVARS_BAT is absent or the subprocess
\* reports failure, and succeeds in every other case.
C3_FailsOnlyOnVcvarsOrSubprocess ==
    BuildDone =>
        (outcome # "success" <=> (VCVARS_BAT \notin exists \/ FirstSpawnFailed))

\* C3 amended: build fails if VCVARS_BAT is absent, COMSPEC is not set or
\* the subprocess reports failure, and succeeds in every other case.
C3_FailsOnVcvarsComspecOrSubprocess ==
    BuildDone =>
        (outcome # "success" <=>
            \/ VCVARS_BAT \notin exists
            \/ "COMSPEC" \notin DOMAIN environ
            \/ FirstSpawnFailed)

C3_Witness ==
    /\ BuildDone
    /\ outcome = "success"
    /\ Len(spawned) = 1
    /\ spawned[1].status = 0

\* C9: the input stream given to the subprocess is exactly the line
\* msvcbuild.bat and the line exit, each ended by CRLF, and nothing else.
C9_InStreamIsBuildThenExit ==
    \A k \in 1..Len(spawned) :
        spawned[k].in_stream = <<"msvcbuild.bat", "\r\n", "exit", "\r\n">>

\* C10 as stated: a run of build that spawns the subprocess has performed
\* get_cmake and the existence check of VCVARS_BAT before the spawn.
C10_BothLookupsBeforeSpawn ==
    spawned # <<>> => (gpc = "done" /\ VCVARS_BAT \in Range(checked))

\* C10 amended: a run of build that spawns the subprocess has performed the
\* existence check of VCVARS_BAT before the spawn, and that is its only
\* lookup on the filesystem: build does not call get_cmake (PATH is not read,
\* no cmake.exe is looked for).
C10_VcvarsCheckBeforeSpawn ==
    spawned # <<>> =>
        /\ checked = <<VCVARS_BAT>>
        /\ envReads = <<"COMSPEC">>
        /\ gpc = "idle"

C10_Witness ==
    /\ pc = "wait"
    /\ Len(spawned) = 1
    /\ checked = <<VCVARS_BAT>>

(***************************************************************************)
(* Properties of get_cmake, checked under SpecGetCmake.                    *)
(***************************************************************************)
PathEntries == IF "PATH" \in DOMAIN environ THEN Split(environ["PATH"]) ELSE <<>>

\* Entry k of PATH is a non-empty, existing directory that contains cmake.exe.
HasCmake(k) ==
    /\ PathEntries[k] # <<>>
    /\ PathEntries[k] \in exists
    /\ CmakeIn(PathEntries[k]) \in exists

SomeHasCmake == \E k \in 1..Len(PathEntries) : HasCmake(k)

FirstWithCmake ==
    CHOOSE k \in 1..Len(PathEntries) :
        HasCmake(k) /\ \A m \in 1..(k - 1) : ~HasCmake(m)

\* C4: on Windows, when some PATH entry is an existing directory containing
\* cmake.exe, get_cmake returns the cmake.exe of the first such entry and
\* never checks the fallback path.
C4_ReturnsFirstPathHit ==
    (system = "Windows" /\ SomeHasCmake) =>
        /\ FALLBACK_CMAKE \notin Range(checked)
        /\ gpc = "done" => gresult = Return(CmakeIn(PathEntries[FirstWithCmake]))

C4_Witness ==
    /\ gpc = "done"
    /\ system = "Windows"
    /\ SomeHasCmake
    /\ FirstWithCmake = 3
    /\ PathEntries[1] \in exists
    /\ PathEntries[2] = <<>>
    /\ FALLBACK_CMAKE \in exists

\* C5 as stated: on Windows, when no PATH directory contains cmake.exe,
\* get_cmake returns the fallback path if it exists and raises
\* FileNotFoundError if not; FileNotFoundError is raised only then.
C5_FallbackOrToolNotFound ==
    (gpc = "done" /\ system = "Windows") =>
        /\ ~SomeHasCmake =>
              gresult = (IF FALLBACK_CMAKE \in exists
                            THEN Return(FALLBACK_CMAKE)
                            ELSE Raise(<<"FileNotFoundError", "cmake.exe">>))
        /\ gresult = Raise(<<"FileNotFoundError", "cmake.exe">>) =>
              (~SomeHasCmake /\ FALLBACK_CMAKE \notin exists)

\* C5 amended: the same, when PATH is set (when it is not, get_cmake raises
\* KeyError before any lookup).
C5_FallbackOrToolNotFoundIfPathSet ==
    (gpc = "done" /\ system = "Windows") =>
        /\ ("PATH" \in DOMAIN environ /\ ~SomeHasCmake) =>
              /\ gresult = (IF FALLBACK_CMAKE \in exists
                               THEN Return(FALLBACK_CMAKE)
                               ELSE Raise(<<"FileNotFoundError", "cmake.exe">>))
              /\ checked[Len(checked)] = FALLBACK_CMAKE
        /\ "PATH" \notin DOMAIN environ =>
              (gresult = Raise(<<"KeyError", "PATH">>) /\ checked = <<>>)
        /\ gresult = Raise(<<"FileNotFoundError", "cmake.exe">>) =>
              (~SomeHasCmake /\ FALLBACK_CMAKE \notin exists)

C5_Witness ==
    /\ gpc = "done"
    /\ system = "Windows"
    /\ "PATH" \in DOMAIN environ
    /\ Len(PathEntries) = 2
    /\ PathEntries[1] \in exists
    /\ FALLBACK_CMAKE \in exists
    /\ gresult = Return(FALLBACK_CMAKE)

\* C6: on a platform other than Windows, get_cmake raises
\* NotImplementedError without any existence check and without reading PATH.
C6_OtherPlatformFailsWithoutLookup ==
    system # "Windows" =>
        /\ checked = <<>>
        /\ envReads = <<>>
        /\ gpc = "done" => gresult = Raise(<<"NotImplementedError">>)

C6_Witness ==
    /\ gpc = "done"
    /\ system = "Linux"
    /\ SomeHasCmake
    /\ FALLBACK_CMAKE \in exists
    /\ gresult = Raise(<<"NotImplementedError">>)

(***************************************************************************)
(* Properties of commandline, checked under SpecCommandline.               *)
(***************************************************************************)
Whitespace == {" ", "\t"}

\* The length of the longest prefix of s without whitespace.
WordLen(s) ==
    IF \A k \in 1..Len(s) : s[k] \notin Whitespace
       THEN Len(s)
       ELSE (CHOOSE j \in 1..Len(s) :
                /\ s[j] \in Whitespace
                /\ \A m \in 1..(j - 1) : s[m] \notin Whitespace) - 1

RECURSIVE WsSplit(_)
\* Splitting on runs of whitespace.
WsSplit(s) ==
    IF s = <<>> THEN <<>>
    ELSE IF s[1] \in Whitespace THEN WsSplit(Tail(s))
    ELSE <<SubSeq(s, 1, WordLen(s))>> \o WsSplit(SubSeq(s, WordLen(s) + 1, Len(s)))

\* Splitting on whitespace, a leading double-quoted token being one token.
Reparse(s) ==
    IF s # <<>> /\ s[1] = "\"" /\ \E j \in 2..Len(s) : s[j] = "\""
       THEN LET j == CHOOSE i \in 2..Len(s) :
                        /\ s[i] = "\""
                        /\ \A m \in 2..(i - 1) : s[m] # "\""
            IN <<SubSeq(s, 2, j - 1)>> \o WsSplit(SubSeq(s, j + 1, Len(s)))
       ELSE WsSplit(s)

\* C7 as stated: for all executable paths and argument lists the output of
\* commandline re-parses into the same executable and the same arguments.
C7_RoundTripForAll ==
    cpc = "done" => Reparse(cmd) = <<exe>> \o args

\* C7 amended: the output re-parses into the same executable and arguments
\* when the executable contains no double quote and, unless it contains a
\* space, no other whitespace, and every argument is non-empty and free of
\* whitespace.
RoundTripInputs ==
    /\ "\"" \notin Range(exe)
    /\ (" " \in Range(exe) \/ Range(exe) \cap Whitespace = {})
    /\ \A k \in 1..Len(args) : args[k] # <<>> /\ Range(args[k]) \cap Whitespace = {}

C7_RoundTripForPlainInputs ==
    (cpc = "done" /\ RoundTripInputs) => Reparse(cmd) = <<exe>> \o args

C7_Witness ==
    /\ cpc = "done"
    /\ RoundTripInputs
    /\ " " \in Range(exe)
    /\ Len(args) = 2
    /\ args[1] # args[2]
    /\ Reparse(cmd) = <<exe>> \o args

IsPrefix(s, t) == Len(s) <= Len(t) /\ SubSeq(t, 1, Len(s)) = s

\* C8: the output of commandline starts with the executable path wrapped in
\* double quotes if and only if the path contains a space.
C8_QuotedIffSpace ==
    cpc = "done" =>
        /\ " " \in Range(exe) <=> IsPrefix(<<"\"">> \o exe \o <<"\"">>, cmd)
        /\ " " \notin Range(exe) <=> IsPrefix(exe \o <<" ">>, cmd)

C8_Witness ==
    /\ cpc = "done"
    /\ " " \in Range(exe)
    /\ args # <<>>
    /\ IsPrefix(<<"\"">> \o exe \o <<"\"">>, cmd)

====
